---- MODULE Spec2Model ----
(***************************************************************************)
(* Model of the sentiment chart of Cliox-VizHub                            *)
(* (src/components/SentimentChart.tsx, SentimentChart_v2.tsx):             *)
(*   - decimateData, the bucket decimation applied before drawing;         *)
(*   - the nearest-timestamp binary search of the mousemove handler;       *)
(*   - the component state (data, visibility, date range, width) with its  *)
(*     load, brush, reset, toggle, resize and hover handlers, the render   *)
(*     effect and what its passes leave in the DOM.                        *)
(* A handler and the render effect its state change triggers are one step: *)
(* React 18 batches the state updates of a handler (and of an async        *)
(* continuation) and runs the effect before the next event is handled.     *)
(* Three specifications share the variables:                               *)
(*   SpecDecimate  applies decimateData to bounded inputs,                 *)
(*   SpecSearch    runs the binary search loop step by step,               *)
(*   Spec          runs the component.                                     *)
(* JavaScript arrays are 0-based; the model keeps the source's 0-based     *)
(* indices and reads element j of an array as At(array, j).                *)
(***************************************************************************)
EXTENDS Integers, Sequences, FiniteSets

VARIABLES
  data,          \* decimateData: argument `data`
  maxPoints,     \* decimateData: argument `maxPoints`
  decimated,     \* decimateData: the returned array
  dpc,           \* decimateData: "call" before the call, "done" after it
  sortedTimestamps,  \* mousemove: the render pass's sorted hover timestamps
  mouseDate,         \* mousemove: x.invert(mouseX).getTime()
  left,              \* mousemove: binary search lower end
  right,             \* mousemove: binary search upper end
  closestIndex,      \* mousemove: index of the closest timestamp so far
  probes,            \* mousemove: the values `mid` has taken, in order
  selectedTimestamp, \* mousemove: sortedTimestamps[closestIndex] after the loop
  spc,               \* mousemove: "move", "loop", "done" or "returned"
  sentimentData,     \* SentimentChart state: the loaded series
  visibleLines,      \* SentimentChart state: series name -> boolean
  dateRange,         \* SentimentChart state: Null or {start, end}
  loading,           \* SentimentChart state
  error,             \* SentimentChart state: Null or the message
  fetching,          \* a call of fetchChartData is awaiting its response
  clientWidth,       \* DOM: clientWidth of the chart and brush containers
  brush,             \* what the last renderBrush left: Null, or the x scale
                     \* (domain, width) its handlers close over
  event,             \* the event the last step handled
  variant,           \* "v1": SentimentChart, "v2": SentimentChartV2
  skipLoading,       \* SentimentChartV2's prop (FALSE in SentimentChart)
  chartWidth,        \* component state: the width the resize handler stored
  resizeListener,    \* the resize effect added its window listener
  resizeTimer,       \* debounce: a timeout of handleResize is pending
  fetchOutcome,      \* "none", or how the last fetch ended: "ok", "failed"
  passes,            \* render passes (renderChart + renderBrush) the last
                     \* step ran
  tooltipRef,        \* tooltipRef.current is set
  tooltipCreated,    \* the last step appended a new tooltip element
  chartSvgs,         \* DOM: svg elements in the chart container
  chartTooltips,     \* DOM: tooltip divs in the chart container
  brushSvgs,         \* DOM: svg elements in the brush container
  resetButtons,      \* DOM: 'Reset Zoom' buttons in the brush container
                     \* (MaxButtons stands for MaxButtons or more)
  drawn,             \* what the last renderChart drew: "nothing",
                     \* "placeholder" or "lines"
  formattedData,     \* renderChart: the series the hover handlers close over
  tooltipContent,    \* the texts the tooltip shows, one per drawn series
  clock,             \* Date.now() and the timer clock, in ms
  lastMove,          \* renderChart: `let lastMove` of the mousemove throttle
  moves,             \* the times at which this pass's handler went past its
                     \* throttle
  wait,              \* debounce: argument `wait`
  timeout,           \* debounce: `let timeout`, Null or a timer id
  timers,            \* the pending setTimeout timers: id, due time, arguments
  calls,             \* the calls of the debounced function: time, arguments
  funcRuns,          \* the runs of the wrapped function: time, arguments
  unmounted,         \* the component has unmounted (chartRef.current is null)
  localStorage,      \* window.localStorage: key -> Null or the stored string
  dataStatus,        \* data store state: storage key -> boolean
  showUploadModal,   \* Home state
  homeLoading,       \* Home state `isLoading`
  storageEvents,     \* 'storage' events of another tab not yet delivered
  loaderState,       \* useDataLoader state: data, isLoading, error
  responses,         \* useDataLoader: how each file's fetch and parse ends
  lpc                \* useDataLoader: "mounted", "loading" or "settled"

decimateVars == <<data, maxPoints, decimated, dpc>>

searchVars == <<sortedTimestamps, mouseDate, left, right, closestIndex, probes,
                selectedTimestamp, spc>>

loopVars == <<mouseDate, left, right, closestIndex, probes, spc>>

domVars == <<passes, tooltipRef, tooltipCreated, chartSvgs, chartTooltips,
             brushSvgs, resetButtons, drawn, formattedData, tooltipContent>>

mountVars == <<variant, skipLoading, resizeListener>>

chartVars == <<sentimentData, visibleLines, dateRange, loading, error, fetching,
               clientWidth, brush, event, mountVars, chartWidth, resizeTimer,
               fetchOutcome, domVars>>

\* The chart component's state without the record of the last event.
chartState == <<sentimentData, visibleLines, dateRange, loading, error, fetching,
                clientWidth, brush, mountVars, chartWidth, resizeTimer,
                fetchOutcome, domVars>>

throttleVars == <<lastMove, moves>>

debounceVars == <<wait, timeout, timers, calls, funcRuns, unmounted>>

timerVars == <<clock, throttleVars, debounceVars>>

storeVars == <<localStorage, dataStatus>>

homeVars == <<showUploadModal, homeLoading, storageEvents>>

loaderVars == <<loaderState, responses, lpc>>

\* State outside the chart component's render path.
otherVars == <<timerVars, storeVars, homeVars, loaderVars>>

vars == <<decimateVars, searchVars, chartVars, otherVars>>

----------------------------------------------------------------------------
(* Bounds of the decimation inputs *)

MaxLen == 6          \* longest input array
MaxValue == 1        \* point values are 0..MaxValue
MaxDate == 1         \* point dates are 0..MaxDate
NegMaxPoints == 1    \* smallest maxPoints is -NegMaxPoints
MaxMaxPoints == 6    \* largest maxPoints

(* Bounds of the binary search inputs *)

MaxStamps == 5       \* longest sortedTimestamps
MaxTime == 8         \* timestamps and pointer times are 0..MaxTime

(* Bounds of the component's inputs *)

MaxInstant == 1      \* the data's timestamps are the instants 0..MaxInstant
MaxWidth == 2        \* the brush is 1..MaxWidth pixels wide inside its margins
MaxButtons == 2      \* reset buttons are counted up to MaxButtons

(* Bounds of the render pass inputs *)

MaxSeriesLen == 104  \* longest series handed to renderChart
MaxBudget == 103     \* largest point budget floor(width / 3)

(* Bounds of the timed handlers *)

MaxElapsed == 65     \* the clock runs MaxElapsed ms past a render pass

----------------------------------------------------------------------------
(* Array reads; a FormattedDataPoint is a record [date, value] *)

\* What JavaScript yields for an array element that does not exist.
Undefined == [date |-> 0 - 1, value |-> 0 - 1]

At(array, j) == IF j \in 0..(Len(array) - 1) THEN array[j + 1] ELSE Undefined

----------------------------------------------------------------------------
(* decimateData *)

bucketStart(i, length, maxPts) == (i * length) \div maxPts

bucketEnd(i, length, maxPts) == ((i + 1) * length) \div maxPts

RECURSIVE scanBucket_inclusiveEnd(_, _, _, _)
\* Mutant: the inner loop runs to `j <= bucketEnd`.
scanBucket_inclusiveEnd(array, j, end, maxIdx) ==
  IF j > end THEN maxIdx
  ELSE scanBucket_inclusiveEnd(array, j + 1, end,
                  IF At(array, j).value > At(array, maxIdx).value THEN j ELSE maxIdx)

RECURSIVE scanBucket(_, _, _, _)
\* The inner loop `for (j = bucketStart; j < bucketEnd; j++)`: maxIdx is the
\* index of maxPoint, whose value is maxValue.
scanBucket(array, j, end, maxIdx) ==
  IF j >= end THEN maxIdx
  ELSE scanBucket(array, j + 1, end,
                  IF At(array, j).value > At(array, maxIdx).value THEN j ELSE maxIdx)

\* Index of the point pushed for bucket i.
bucketMaxIndex(array, maxPts, i) ==
  scanBucket(array, bucketStart(i, Len(array), maxPts),
             bucketEnd(i, Len(array), maxPts),
             bucketStart(i, Len(array), maxPts))

\* Mutant: the bucket loop runs to `i < maxPoints`, one bucket too many.
decimatedIndices_extraBucket(array, maxPts) ==
  <<0>> \o [i \in 1..(maxPts - 1) |-> bucketMaxIndex(array, maxPts, i)]
        \o <<Len(array) - 1>>

\* Mutant: the last point is not pushed.
decimatedIndices_noLast(array, maxPts) ==
  <<0>> \o [i \in 1..(maxPts - 2) |-> bucketMaxIndex(array, maxPts, i)]

\* The input indices pushed when the array is longer than maxPts: index 0,
\* one index per bucket i = 1 .. maxPts-2, index length-1.
decimatedIndices(array, maxPts) ==
  <<0>> \o [i \in 1..(maxPts - 2) |-> bucketMaxIndex(array, maxPts, i)]
        \o <<Len(array) - 1>>

\* Mutant: the early return for short arrays is missing.
decimateData_noEarlyReturn(array, maxPts) ==
  LET idx == decimatedIndices(array, maxPts)
  IN  [k \in 1..Len(idx) |-> At(array, idx[k])]

decimateData(array, maxPts) ==
  IF Len(array) <= maxPts THEN array
  ELSE LET idx == decimatedIndices(array, maxPts)
       IN  [k \in 1..Len(idx) |-> At(array, idx[k])]

\* No call of decimateData under way.
DecimateIdle ==
  /\ data = <<>>
  /\ maxPoints = 0
  /\ decimated = <<>>
  /\ dpc = "idle"

----------------------------------------------------------------------------
(* The binary search of the mousemove handler *)

Abs(x) == IF x < 0 THEN 0 - x ELSE x

\* No timestamp selected yet.
NoTimestamp == 0 - 1

\* Mutant: the distances are compared without Math.abs.
closer_noAbs(stamps, mid, closest, pointer) ==
  At(stamps, mid) - pointer < At(stamps, closest) - pointer

\* Mutant: `<=` instead of `<`, so a later probe at equal distance wins.
closer_orEqual(stamps, mid, closest, pointer) ==
  Abs(At(stamps, mid) - pointer) <= Abs(At(stamps, closest) - pointer)

\* Math.abs(sortedTimestamps[mid] - mouseDate) <
\* Math.abs(sortedTimestamps[closestIndex] - mouseDate)
closer(stamps, mid, closest, pointer) ==
  Abs(At(stamps, mid) - pointer) < Abs(At(stamps, closest) - pointer)

SearchIdle ==
  /\ sortedTimestamps = <<>>
  /\ mouseDate = 0
  /\ left = 0
  /\ right = 0
  /\ closestIndex = 0
  /\ probes = <<>>
  /\ selectedTimestamp = NoTimestamp
  /\ spc = "idle"

\* The handler up to the loop: it returns when there is no timestamp, and
\* otherwise sets left, right and closestIndex.
SearchStart ==
  /\ spc = "move"
  /\ IF Len(sortedTimestamps) = 0
       THEN /\ spc' = "returned"
            /\ UNCHANGED <<left, right, closestIndex>>
       ELSE /\ left' = 0
            /\ right' = Len(sortedTimestamps) - 1
            /\ closestIndex' = 0
            /\ spc' = "loop"
  /\ UNCHANGED <<sortedTimestamps, mouseDate, probes, selectedTimestamp>>
  /\ UNCHANGED <<decimateVars, chartVars, otherVars>>

\* One iteration of `while (left <= right)`.
SearchStep ==
  /\ spc = "loop"
  /\ left <= right
  /\ LET mid == (left + right) \div 2
     IN  /\ closestIndex' = IF closer(sortedTimestamps, mid, closestIndex, mouseDate)
                              THEN mid ELSE closestIndex
         /\ IF At(sortedTimestamps, mid) < mouseDate
              THEN left' = mid + 1 /\ right' = right
              ELSE right' = mid - 1 /\ left' = left
         /\ probes' = Append(probes, mid)
  /\ UNCHANGED <<sortedTimestamps, mouseDate, selectedTimestamp, spc>>
  /\ UNCHANGED <<decimateVars, chartVars, otherVars>>

\* The loop exit: selectedTimestamp = sortedTimestamps[closestIndex].
SearchExit ==
  /\ spc = "loop"
  /\ left > right
  /\ selectedTimestamp' = At(sortedTimestamps, closestIndex)
  /\ spc' = "done"
  /\ UNCHANGED <<sortedTimestamps, mouseDate, left, right, closestIndex, probes>>
  /\ UNCHANGED <<decimateVars, chartVars, otherVars>>

----------------------------------------------------------------------------
(* The SentimentChart component: state, data and scales *)

\* null: a state holding no value, an event without a selection.
Null == [null |-> TRUE]

\* The storage keys of the data store.
STORAGE_KEYS ==
  {"wordCloudData", "dateDistributionData", "emailDistributionData", "sentimentData",
   "documentSummaryData"}

\* No mousemove handler.
ThrottleIdle ==
  /\ lastMove = 0
  /\ moves = {}

\* No debounced function; `timeout` is null, which `if (timeout)` takes like 0.
DebounceIdle ==
  /\ wait = 0
  /\ timeout = 0
  /\ timers = {}
  /\ calls = <<>>
  /\ funcRuns = <<>>
  /\ unmounted = FALSE

TimerIdle == clock = 0 /\ ThrottleIdle /\ DebounceIdle

\* The keys saveData writes beside the data: `${dataType}FileName` and so on.
MetaSuffixes == {"FileName", "FileType", "Timestamp"}

ItemKeys == STORAGE_KEYS \cup {k \o suffix : k \in STORAGE_KEYS, suffix \in MetaSuffixes}

\* localStorage.getItem gives null or a string: <<>> stands for null and <<s>>
\* for the string s.
NoItem == <<>>

\* Home not mounted: no modal, `isLoading` as useState(true) leaves it.
HomeIdle ==
  /\ showUploadModal = FALSE
  /\ homeLoading = TRUE
  /\ storageEvents = 0

\* The data store as created, on an empty localStorage; Home not mounted.
StoreIdle ==
  /\ localStorage = [k \in ItemKeys |-> NoItem]
  /\ dataStatus = [k \in STORAGE_KEYS |-> FALSE]
  /\ HomeIdle

\* useDataLoader not mounted.
LoaderIdle ==
  /\ loaderState = Null
  /\ responses = <<>>
  /\ lpc = "idle"

OtherIdle == TimerIdle /\ StoreIdle /\ LoaderIdle

\* A raw timestamp string that parseTime does not accept.
BadTimestamp == 0 - 1

\* The raw timestamp strings of the data: one per instant, and a malformed one.
RawTimes == (0..MaxInstant) \cup {BadTimestamp}

\* d3.timeParse: the Date of a well-formed string, NoDate (null) otherwise.
NoDate == 0 - 1

parseTime(raw) == IF raw >= 0 THEN raw ELSE NoDate

SeriesNames == <<"A", "B">>

SetMax(S) == CHOOSE x \in S : \A y \in S : y <= x

SetMin(S) == CHOOSE x \in S : \A y \in S : x <= y

RECURSIVE Descending(_)
\* The values [string, number][] of a series holding the raw timestamps S,
\* latest first: the data source does not deliver them sorted.
Descending(S) ==
  IF S = {} THEN <<>>
  ELSE <<<<SetMax(S), 1>>>> \o Descending(S \ {SetMax(S)})

\* The responses the data source can give: up to two series, each with any
\* set of raw timestamps.
Datasets ==
  UNION {[1..n -> {Descending(S) : S \in SUBSET RawTimes}] : n \in 0..Len(SeriesNames)}

SeriesOf(values) ==
  [k \in 1..Len(values) |-> [values |-> values[k], name |-> SeriesNames[k]]]

\* data.flatMap(d => d.values.map(v => parseTime(v[0]))).filter(d => d !== null)
allDates(series) ==
  UNION {{parseTime(series[k].values[j][1]) : j \in 1..Len(series[k].values)} :
           k \in 1..Len(series)} \ {NoDate}

\* d3.extent read as the least element twice
extent_minOnly(dates) == <<SetMin(dates), SetMin(dates)>>

\* d3.extent(allDates)
extent(dates) == <<SetMin(dates), SetMax(dates)>>

BrushMarginLeft == 50

BrushMarginRight == 80

BrushMarginRightV2 == 40

\* margin.right of renderChart and of renderBrush in the mounted variant;
\* margin.left is the same in both.
marginRight == IF variant = "v1" THEN BrushMarginRight ELSE BrushMarginRightV2

\* The component's container is wider than the margins.
ClientWidths == {BrushMarginLeft + marginRight + w : w \in 1..MaxWidth}

\* The component is mounted in the DOM branch that holds the chart containers:
\* `loading ? skeleton : error ? ChartError : chart` in SentimentChart,
\* `loading && !skipLoading ? message : chart` in SentimentChartV2.
ChartMounted(isLoading, err) ==
  IF variant = "v1" THEN ~isLoading /\ err = Null
  ELSE ~(isLoading /\ ~skipLoading)

\* The guard of the render effect.
effectGuard(series, range, isLoading, err) ==
  ChartMounted(isLoading, err) /\ Len(series) > 0 /\ range # Null

\* The render effect and renderBrush: under the effect's guard the brush is
\* rebuilt with an x scale from fullDateRange to [0, width]; otherwise no brush
\* is in the DOM.
renderBrush(series, range, isLoading, err, width) ==
  IF effectGuard(series, range, isLoading, err)
    THEN [width |-> width - BrushMarginLeft - marginRight,
          domain |-> extent(allDates(series))]
    ELSE Null

\* x.invert(px) of the brush's scaleTime: linear, and a Date holds a whole
\* number of time units, the fraction being cut off.
invert(scale, px) ==
  scale.domain[1] + (px * (scale.domain[2] - scale.domain[1])) \div scale.width

\* The selections a brush event can carry: null, or [x0, x1] with x0 < x1
\* inside the brush (d3-brush reports an empty selection as null); the
\* array [x0, x1] is written as a record.
Selections(scale) ==
  {Null} \cup {sel \in [x0 : 0..scale.width, x1 : 0..scale.width] : sel.x0 < sel.x1}

----------------------------------------------------------------------------
(* renderChart: the data of a pass and the hover handlers *)

Max(a, b) == IF a >= b THEN a ELSE b

Min(a, b) == IF a <= b THEN a ELSE b

\* Array.from(dateValues.keys()).sort((a, b) => a - b)
Ascending(S) ==
  IF S = {} THEN <<>>
  ELSE LET lo == SetMin(S)
           hi == SetMax(S)
       IN  SelectSeq([i \in 1..(hi - lo + 1) |-> lo + i - 1], LAMBDA x : x \in S)

\* visibleLines[d.name] as a condition; SentimentChartV2 has no visibility
\* set and draws every series.
visible(lines, name) ==
  IF variant = "v1" THEN name \in DOMAIN lines /\ lines[name] ELSE TRUE

\* Mutant: the filter keeps the points outside the range.
inRange_outside(range, date) ==
  date # NoDate /\ (date < range.start \/ date > range.end)

\* The filter of renderChart: the date parsed, and inside the range, bounds
\* included.
inRange(range, date) ==
  date # NoDate /\ date >= range.start /\ date <= range.end

\* The points of one series after map, filter and sort.
seriesPoints(values, range) ==
  LET kept == {j \in 1..Len(values) : inRange(range, parseTime(values[j][1]))}
      dates == Ascending({parseTime(values[j][1]) : j \in kept})
  IN  [k \in 1..Len(dates) |->
         [date |-> dates[k],
          value |-> values[CHOOSE j \in kept : parseTime(values[j][1]) = dates[k]][2]]]

\* Mutant: Math.min in place of Math.max.
maxPointsPerLine_min(width) == Min(100, width \div 3)

maxPointsPerLine(width) == Max(100, width \div 3)

\* formattedData after the decimation step.
formatData(series, lines, range, width) ==
  LET shown == SelectSeq(series, LAMBDA d : visible(lines, d.name))
  IN  [k \in 1..Len(shown) |->
         [values |-> decimateData(seriesPoints(shown[k].values, range),
                                  maxPointsPerLine(width)),
          name |-> shown[k].name]]

\* Mutant: the placeholder is drawn only when no series is left.
noData_seriesOnly(formatted) == Len(formatted) = 0

\* formattedData.length === 0 || formattedData.every(d => d.values.length === 0)
noData(formatted) ==
  Len(formatted) = 0 \/ \A k \in 1..Len(formatted) : Len(formatted[k].values) = 0

\* Mutant: only the first series is entered in dateValues.
stampsOf_firstSeries(formatted) ==
  IF Len(formatted) = 0 THEN {}
  ELSE {formatted[1].values[j].date : j \in 1..Len(formatted[1].values)}

\* The keys of dateValues.
stampsOf(formatted) ==
  UNION {{formatted[k].values[j].date : j \in 1..Len(formatted[k].values)} :
           k \in 1..Len(formatted)}

\* The index of the last point of a series at a timestamp, 0 when it has none.
lastPointAt(points, timestamp) ==
  SetMax({0} \cup {j \in 1..Len(points) : points[j].date = timestamp})

\* dateValues: for every timestamp of a drawn point, the value of each series
\* that has a point there (a later set() of the same key replaces the value).
dateValues(formatted) ==
  [timestamp \in stampsOf(formatted) |->
     LET having == {k \in 1..Len(formatted) :
                      lastPointAt(formatted[k].values, timestamp) > 0}
     IN  [name \in {formatted[k].name : k \in having} |->
            LET last == SetMax({k \in having : formatted[k].name = name})
            IN  formatted[last].values[lastPointAt(formatted[last].values,
                                                   timestamp)].value]]

\* value.toFixed(2) and `${value}` of a number.
toFixed(value) == IF value = 0 THEN "0.00" ELSE "1.00"

toText(value) == IF value = 0 THEN "0" ELSE "1"

\* dateValues.get(selectedTimestamp)?.get(series.name) ?? "N/A" with toFixed(2)
\* in SentimentChart; ?? 0 in SentimentChartV2.
tooltipText(points, timestamp) ==
  LET at == {j \in 1..Len(points) : points[j].date = timestamp}
  IN  IF variant = "v1"
        THEN IF at = {} THEN "N/A" ELSE toFixed(points[CHOOSE j \in at : TRUE].value)
        ELSE IF at = {} THEN "0" ELSE toText(points[CHOOSE j \in at : TRUE].value)

RECURSIVE searchLoop(_, _, _, _, _)
\* The binary search loop of the mousemove handler, run to its end.
searchLoop(stamps, pointer, lo, hi, closest) ==
  IF lo > hi THEN closest
  ELSE LET mid == (lo + hi) \div 2
           next == IF closer(stamps, mid, closest, pointer) THEN mid ELSE closest
       IN  IF At(stamps, mid) < pointer
             THEN searchLoop(stamps, pointer, mid + 1, hi, next)
             ELSE searchLoop(stamps, pointer, lo, mid - 1, next)

----------------------------------------------------------------------------
(* The render effect *)

\* Mutant: brush.move dispatches its events as user events.
moveSourceEvent_user == TRUE

\* event.sourceEvent of the 'brush' and 'end' events brush.move dispatches
\* inside renderBrush: none.
moveSourceEvent == FALSE

\* x(date) of the brush scale, as a whole pixel.
scaleX(scale, date) ==
  IF scale.domain[2] = scale.domain[1] THEN scale.width \div 2
  ELSE ((date - scale.domain[1]) * scale.width) \div (scale.domain[2] - scale.domain[1])

\* The selection of the events of brush.move(x(start), x(end)).
moveSelection(scale, range) ==
  IF scaleX(scale, range.start) < scaleX(scale, range.end)
    THEN [x0 |-> scaleX(scale, range.start), x1 |-> scaleX(scale, range.end)]
    ELSE Null

\* Mutant: the end handler does not check event.sourceEvent.
endPublishes_noSourceCheck(sourceEvent, selection) == selection # Null

\* The 'end' handler reaches setDateRange.
endPublishes(sourceEvent, selection) == sourceEvent /\ selection # Null

\* Mutant: the effect does not check dateRange.
effectRuns_noRangeCheck(changed, series, range, isLoading, err) ==
  changed /\ ChartMounted(isLoading, err) /\ Len(series) > 0

\* The effect body passes its guard after a change of its dependencies.
effectRuns(changed, series, range, isLoading, err) ==
  changed /\ effectGuard(series, range, isLoading, err)

\* The passes one run of the effect causes: the pass itself, and one more
\* when the 'end' event of its own brush.move publishes a range.
passesOf(scale, range) ==
  IF endPublishes(moveSourceEvent, moveSelection(scale, range)) THEN 2 ELSE 1

\* The cleanup the previous run of the effect returned runs before the next
\* run of the effect, and removes the tooltip when there is one.
cleanupRuns(changed, ref) == changed /\ ref

\* renderBrush removes the svg elements and appends an svg and a button.
buttonsAfterPass(buttons) == Min(buttons + 1, MaxButtons)

\* The render effect after a step that left the primed component state;
\* `changed`: the step changed one of the effect's dependencies. renderChart
\* and renderBrush return at once when there is no dateRange.
RenderEffect(changed) ==
  LET mounted == ChartMounted(loading', error')
      runs    == effectRuns(changed, sentimentData', dateRange', loading', error')
      draws   == runs /\ mounted /\ dateRange' # Null
      cleaned == cleanupRuns(changed, tooltipRef)
      created == draws /\ ~(tooltipRef /\ ~cleaned)
      width   == clientWidth' - BrushMarginLeft - marginRight
  IN  /\ brush' = IF ~mounted THEN Null
                  ELSE IF draws THEN renderBrush(sentimentData', dateRange', loading',
                                                 error', clientWidth')
                  ELSE brush
      /\ passes' = IF draws THEN passesOf(brush', dateRange')
                   ELSE IF runs THEN 1
                   ELSE 0
      /\ tooltipRef' = IF draws THEN TRUE ELSE tooltipRef /\ ~cleaned
      /\ tooltipCreated' = created
      /\ chartTooltips' = IF ~mounted THEN 0
                          ELSE chartTooltips - (IF cleaned THEN 1 ELSE 0)
                                             + (IF created THEN 1 ELSE 0)
      /\ chartSvgs' = IF ~mounted THEN 0
                      ELSE IF draws THEN (IF width > 0 THEN 1 ELSE 0)
                      ELSE chartSvgs
      /\ brushSvgs' = IF ~mounted THEN 0 ELSE IF draws THEN 1 ELSE brushSvgs
      /\ resetButtons' = IF ~mounted THEN 0
                         ELSE IF draws THEN buttonsAfterPass(resetButtons)
                         ELSE resetButtons
      /\ formattedData' = IF ~mounted THEN <<>>
                          ELSE IF draws /\ width > 0
                                 THEN formatData(sentimentData', visibleLines',
                                                 dateRange', width)
                          ELSE IF draws THEN <<>>
                          ELSE formattedData
      /\ drawn' = IF ~mounted THEN "nothing"
                  ELSE IF draws /\ width > 0
                         THEN (IF noData(formattedData') THEN "placeholder" ELSE "lines")
                  ELSE IF draws THEN "nothing"
                  ELSE drawn
      /\ sortedTimestamps' = IF draws \/ ~mounted
                               THEN (IF drawn' = "lines"
                                       THEN Ascending(stampsOf(formattedData'))
                                       ELSE <<>>)
                               ELSE sortedTimestamps
      /\ tooltipContent' = IF draws \/ cleaned \/ ~mounted THEN <<>> ELSE tooltipContent
      /\ selectedTimestamp' = IF draws \/ ~mounted THEN NoTimestamp
                              ELSE selectedTimestamp

----------------------------------------------------------------------------
(* The component's steps *)

\* No render pass has run, nothing is in the DOM.
DomIdle ==
  /\ passes = 0
  /\ tooltipRef = FALSE
  /\ tooltipCreated = FALSE
  /\ chartSvgs = 0
  /\ chartTooltips = 0
  /\ brushSvgs = 0
  /\ resetButtons = 0
  /\ drawn = "nothing"
  /\ formattedData = <<>>
  /\ tooltipContent = <<>>

\* The component is not mounted.
ChartIdle ==
  /\ sentimentData = <<>>
  /\ visibleLines = <<>>
  /\ dateRange = Null
  /\ loading = TRUE
  /\ error = Null
  /\ fetching = FALSE
  /\ clientWidth = 0
  /\ brush = Null
  /\ event = "none"
  /\ variant = "v1"
  /\ skipLoading = FALSE
  /\ chartWidth = 0
  /\ resizeListener = FALSE
  /\ resizeTimer = FALSE
  /\ fetchOutcome = "none"
  /\ DomIdle

\* After mount: loading, the fetch of the mount effect under way; the resize
\* effect has run once and returned early unless the chart container was in
\* the DOM of the first render.
InitChart ==
  /\ variant \in {"v1", "v2"}
  /\ skipLoading \in (IF variant = "v2" THEN BOOLEAN ELSE {FALSE})
  /\ sentimentData = <<>>
  /\ visibleLines = <<>>
  /\ dateRange = Null
  /\ loading = TRUE
  /\ error = Null
  /\ fetching = TRUE
  /\ clientWidth \in ClientWidths
  /\ brush = Null
  /\ event = "mount"
  /\ resizeListener = ChartMounted(loading, error)
  /\ chartWidth = (IF resizeListener THEN clientWidth ELSE 0)
  /\ resizeTimer = FALSE
  /\ fetchOutcome = "none"
  /\ DomIdle

\* fetchChartData (fetchData in SentimentChartV2), the response arriving with
\* status ok and JSON `series`.
FetchSucceeds(series) ==
  /\ fetching
  /\ sentimentData' = series
  /\ visibleLines' = IF variant = "v1"
                       THEN [name \in {series[k].name : k \in 1..Len(series)} |-> TRUE]
                       ELSE visibleLines
  /\ dateRange' = IF allDates(series) # {}
                    THEN [end |-> extent(allDates(series))[2],
                          start |-> extent(allDates(series))[1]]
                    ELSE dateRange
  /\ loading' = FALSE
  /\ fetching' = FALSE
  /\ fetchOutcome' = "ok"
  /\ event' = "load"
  /\ UNCHANGED <<error, clientWidth, mountVars, chartWidth, resizeTimer>>
  /\ RenderEffect(TRUE)
  /\ UNCHANGED <<decimateVars, loopVars, otherVars>>

ErrorMessages ==
  {"Data is being processed. Please try again in a moment.",
   "Failed to load sentiment data",
   "An unknown error occurred"}

\* fetchChartData, the catch branch: status 503, another status that is not
\* ok, or a rejected fetch. The catch branch of SentimentChartV2 has no
\* error state.
FetchFails(message) ==
  /\ fetching
  /\ error' = IF variant = "v1" THEN [message |-> message] ELSE error
  /\ loading' = FALSE
  /\ fetching' = FALSE
  /\ fetchOutcome' = "failed"
  /\ event' = "fail"
  /\ UNCHANGED <<sentimentData, visibleLines, dateRange, clientWidth,
                 mountVars, chartWidth, resizeTimer>>
  /\ RenderEffect(FALSE)
  /\ UNCHANGED <<decimateVars, loopVars, otherVars>>

\* ChartError's onRetry: fetchChartData up to its await.
Retry ==
  /\ variant = "v1"
  /\ ~loading
  /\ error # Null
  /\ ~fetching
  /\ loading' = TRUE
  /\ error' = Null
  /\ fetching' = TRUE
  /\ fetchOutcome' = "none"
  /\ event' = "retry"
  /\ UNCHANGED <<sentimentData, visibleLines, dateRange, clientWidth,
                 mountVars, chartWidth, resizeTimer>>
  /\ RenderEffect(FALSE)
  /\ UNCHANGED <<decimateVars, loopVars, otherVars>>

\* The brush's 'brush' handler: it returns or reads the selection.
BrushMove(sourceEvent, selection) ==
  /\ brush # Null
  /\ event' = "brush"
  /\ UNCHANGED <<sentimentData, visibleLines, dateRange, loading, error, fetching,
                 clientWidth, mountVars, chartWidth, resizeTimer, fetchOutcome>>
  /\ RenderEffect(FALSE)
  /\ UNCHANGED <<decimateVars, loopVars, otherVars>>

\* The brush's 'end' handler.
BrushEnd(sourceEvent, selection) ==
  /\ brush # Null
  /\ IF endPublishes(sourceEvent, selection)
       THEN dateRange' = [end |-> invert(brush, selection.x1),
                          start |-> invert(brush, selection.x0)]
       ELSE dateRange' = dateRange
  /\ event' = IF endPublishes(sourceEvent, selection) THEN "commit" ELSE "end"
  /\ UNCHANGED <<sentimentData, visibleLines, loading, error, fetching, clientWidth,
                 mountVars, chartWidth, resizeTimer, fetchOutcome>>
  /\ RenderEffect(endPublishes(sourceEvent, selection))
  /\ UNCHANGED <<decimateVars, loopVars, otherVars>>

\* The 'Reset Zoom' button's click handler.
ResetClick ==
  /\ brush # Null
  /\ dateRange' = [end |-> brush.domain[2], start |-> brush.domain[1]]
  /\ event' = "reset"
  /\ UNCHANGED <<sentimentData, visibleLines, loading, error, fetching, clientWidth,
                 mountVars, chartWidth, resizeTimer, fetchOutcome>>
  /\ RenderEffect(TRUE)
  /\ UNCHANGED <<decimateVars, loopVars, otherVars>>

\* toggleLineVisibility, from the checkbox of a series (SentimentChart only).
ToggleLine(name) ==
  /\ variant = "v1"
  /\ ChartMounted(loading, error)
  /\ name \in DOMAIN visibleLines
  /\ visibleLines' = [visibleLines EXCEPT ![name] = ~visibleLines[name]]
  /\ event' = "toggle"
  /\ UNCHANGED <<sentimentData, dateRange, loading, error, fetching, clientWidth,
                 mountVars, chartWidth, resizeTimer, fetchOutcome>>
  /\ RenderEffect(TRUE)
  /\ UNCHANGED <<decimateVars, loopVars, otherVars>>

\* toggleAllLines, from 'Show All' and 'Hide All' (SentimentChart only).
ToggleAll(shown) ==
  /\ variant = "v1"
  /\ ChartMounted(loading, error)
  /\ visibleLines' = [name \in DOMAIN visibleLines |-> shown]
  /\ event' = "toggle"
  /\ UNCHANGED <<sentimentData, dateRange, loading, error, fetching, clientWidth,
                 mountVars, chartWidth, resizeTimer, fetchOutcome>>
  /\ RenderEffect(TRUE)
  /\ UNCHANGED <<decimateVars, loopVars, otherVars>>

\* The window is resized and the container's width follows; handleResize, if
\* the resize effect added it, restarts its timeout.
WindowResize(width) ==
  /\ width # clientWidth
  /\ clientWidth' = width
  /\ resizeTimer' = resizeListener
  /\ event' = "resize"
  /\ UNCHANGED <<sentimentData, visibleLines, dateRange, loading, error, fetching,
                 mountVars, chartWidth, fetchOutcome>>
  /\ RenderEffect(FALSE)
  /\ UNCHANGED <<decimateVars, loopVars, otherVars>>

\* The timeout of handleResize fires, 150 ms after the last resize event.
ResizeTimeout ==
  /\ resizeTimer
  /\ resizeTimer' = FALSE
  /\ chartWidth' = IF ChartMounted(loading, error) THEN clientWidth ELSE chartWidth
  /\ event' = "timeout"
  /\ UNCHANGED <<sentimentData, visibleLines, dateRange, loading, error, fetching,
                 clientWidth, mountVars, fetchOutcome>>
  /\ RenderEffect(chartWidth' # chartWidth)
  /\ UNCHANGED <<decimateVars, loopVars, otherVars>>

\* The mousemove handler of the chart's mouse area, for a pointer at pixel
\* mouseX that the throttle lets through.
MouseMove(mouseX) ==
  /\ drawn = "lines"
  /\ Len(sortedTimestamps) # 0
  /\ LET pointer == invert([width |-> brush.width,
                            domain |-> <<dateRange.start, dateRange.end>>], mouseX)
         closest == searchLoop(sortedTimestamps, pointer, 0,
                               Len(sortedTimestamps) - 1, 0)
     IN  selectedTimestamp' = At(sortedTimestamps, closest)
  /\ tooltipContent' = IF tooltipRef
                         THEN [k \in 1..Len(formattedData) |->
                                 tooltipText(formattedData[k].values, selectedTimestamp')]
                         ELSE tooltipContent
  /\ event' = "mousemove"
  /\ UNCHANGED <<sortedTimestamps, sentimentData, visibleLines, dateRange, loading,
                 error, fetching, clientWidth, brush, mountVars, chartWidth,
                 resizeTimer, fetchOutcome>>
  /\ passes' = 0
  /\ tooltipCreated' = FALSE
  /\ UNCHANGED <<tooltipRef, chartSvgs, chartTooltips, brushSvgs, resetButtons,
                 drawn, formattedData>>
  /\ UNCHANGED <<decimateVars, loopVars, otherVars>>

Next ==
  \/ \E series \in Datasets : FetchSucceeds(SeriesOf(series))
  \/ \E message \in ErrorMessages : FetchFails(message)
  \/ Retry
  \/ /\ brush # Null
     /\ \E sourceEvent \in BOOLEAN : \E selection \in Selections(brush) :
          BrushMove(sourceEvent, selection)
  \/ /\ brush # Null
     /\ \E sourceEvent \in BOOLEAN : \E selection \in Selections(brush) :
          BrushEnd(sourceEvent, selection)
  \/ ResetClick
  \/ \E k \in 1..Len(SeriesNames) : ToggleLine(SeriesNames[k])
  \/ \E shown \in BOOLEAN : ToggleAll(shown)
  \/ \E width \in ClientWidths : WindowResize(width)
  \/ ResizeTimeout
  \/ /\ brush # Null
     /\ \E mouseX \in 0..brush.width : MouseMove(mouseX)

Init == InitChart /\ DecimateIdle /\ SearchIdle /\ OtherIdle

Spec == Init /\ [][Next]_vars

\* The timeout of handleResize fires once it is due.
Fairness == WF_vars(ResizeTimeout)

FairSpec == Spec /\ Fairness

----------------------------------------------------------------------------
(* SpecSearch: one run of the binary search *)

\* sortedTimestamps holds the keys of a Map, sorted ascending: distinct.
SearchInputs ==
  {Ascending(S) : S \in {T \in SUBSET (0..MaxTime) : Cardinality(T) <= MaxStamps}}

InitSearch ==
  /\ sortedTimestamps \in SearchInputs
  /\ mouseDate \in 0..MaxTime
  /\ left = 0
  /\ right = 0
  /\ closestIndex = 0
  /\ probes = <<>>
  /\ selectedTimestamp = NoTimestamp
  /\ spc = "move"
  /\ DecimateIdle
  /\ ChartIdle
  /\ OtherIdle

NextSearch == SearchStart \/ SearchStep \/ SearchExit

SpecSearch == InitSearch /\ [][NextSearch]_vars

----------------------------------------------------------------------------
(* SpecDecimate: one call of decimateData *)

\* Both call sites sort the points by date before the call.
SortedByDate(array) ==
  \A k \in 1..(Len(array) - 1) : array[k].date <= array[k + 1].date

\* The non-decreasing date sequences of length n.
SortedDates(n) ==
  {ds \in [1..n -> 0..MaxDate] : \A k \in 1..(n - 1) : ds[k] <= ds[k + 1]}

\* An array decimateData is called with: n points, any values, dates sorted.
DecimateInput(ds, vs) ==
  [k \in 1..Len(ds) |-> [date |-> ds[k], value |-> vs[k]]]

\* The scenario of the specification: values 1,5,2,9,1 at t0..t4.
ScenarioPoints ==
  << [date |-> 0, value |-> 1], [date |-> 1, value |-> 5], [date |-> 2, value |-> 2],
     [date |-> 3, value |-> 9], [date |-> 4, value |-> 1] >>

InitDecimate ==
  /\ \/ /\ \E n \in 0..MaxLen :
             \E ds \in SortedDates(n) : \E vs \in [1..n -> 0..MaxValue] :
               data = DecimateInput(ds, vs)
        /\ maxPoints \in (0 - NegMaxPoints)..MaxMaxPoints
     \/ /\ data = ScenarioPoints
        /\ maxPoints = 3
  /\ decimated = <<>>
  /\ dpc = "call"
  /\ SearchIdle
  /\ ChartIdle
  /\ OtherIdle

Decimate ==
  /\ dpc = "call"
  /\ decimated' = decimateData(data, maxPoints)
  /\ dpc' = "done"
  /\ UNCHANGED <<data, maxPoints>>
  /\ UNCHANGED <<searchVars, chartVars, otherVars>>

NextDecimate == Decimate

SpecDecimate == InitDecimate /\ [][NextDecimate]_vars

----------------------------------------------------------------------------
(* Claims about decimateData (SpecDecimate) *)

Values(array) == {array[k].value : k \in 1..Len(array)}

\* C1: for every input and every maxPoints > 2 the result holds at most
\* maxPoints points.
C1_AtMostMaxPoints ==
  (dpc = "done" /\ maxPoints > 2) => Len(decimated) <= maxPoints

C1_Witness ==
  /\ dpc = "done"
  /\ maxPoints > 2
  /\ Len(data) > maxPoints
  /\ Len(decimated) = maxPoints

\* C2: for a non-empty input and any maxPoints the result starts with the
\* first input point and ends with the last input point.
C2_FirstAndLastKept ==
  (dpc = "done" /\ data # <<>>) =>
    /\ decimated # <<>>
    /\ decimated[1] = data[1]
    /\ decimated[Len(decimated)] = data[Len(data)]

C2_Witness ==
  /\ dpc = "done"
  /\ Len(data) >= 3
  /\ Len(data) > maxPoints
  /\ maxPoints < 2
  /\ data[1] # data[Len(data)]
  /\ decimated = <<data[1], data[Len(data)]>>

\* C3: when the input is longer than maxPoints >= 3, the result holds a point
\* whose value is the maximum over the interior points (indices 1..length-2);
\* the scenario 1,5,2,9,1 with maxPoints = 3 gives (t0,1),(t3,9),(t4,1).
C3_TallestSpikeKept ==
  (dpc = "done" /\ Len(data) > maxPoints /\ maxPoints >= 3) =>
    /\ SetMax({data[k].value : k \in 2..(Len(data) - 1)}) \in Values(decimated)
    /\ (data = ScenarioPoints /\ maxPoints = 3) =>
         decimated = <<ScenarioPoints[1], ScenarioPoints[4], ScenarioPoints[5]>>

\* C4: decimateData returns its input unchanged when the input holds at most
\* maxPoints points.
C4_IdentityWhenShort ==
  (dpc = "done" /\ Len(data) <= maxPoints) => decimated = data

C4_Witness ==
  /\ dpc = "done"
  /\ Len(data) >= 3
  /\ Len(data) <= maxPoints
  /\ decimated = data

\* C5: when the input is longer than maxPoints >= 2 the result is the first
\* point, one point out of every bucket in bucket order, and the last point;
\* the input indices of the result increase strictly, the result holds exactly
\* maxPoints points, and its dates do not decrease when the input's do not.
C5_OnePerBucketInOrder ==
  (dpc = "done" /\ Len(data) > maxPoints /\ maxPoints >= 2) =>
    LET idx == decimatedIndices(data, maxPoints)
        n   == Len(data)
    IN  /\ Len(decimated) = maxPoints
        /\ Len(idx) = maxPoints
        /\ idx[1] = 0
        /\ idx[maxPoints] = n - 1
        /\ \A i \in 1..(maxPoints - 2) :
             /\ bucketStart(i, n, maxPoints) <= idx[i + 1]
             /\ idx[i + 1] < bucketEnd(i, n, maxPoints)
        /\ \A k \in 1..(maxPoints - 1) : idx[k] < idx[k + 1]
        /\ \A k \in 1..maxPoints : decimated[k] = data[idx[k] + 1]
        /\ SortedByDate(data) => SortedByDate(decimated)

C5_Witness ==
  /\ dpc = "done"
  /\ Len(data) > maxPoints
  /\ maxPoints >= 4
  /\ Len(decimated) = maxPoints
  /\ decimated[2] = data[3]
  /\ data[3].value > data[2].value

\* C6: for every maxPoints <= 2 a non-empty input gives a result holding the
\* first and the last input point and no other point, and an empty input
\* gives an empty result.
C6_DegenerateMaxPoints ==
  (dpc = "done" /\ maxPoints <= 2) =>
    /\ data = <<>> => decimated = <<>>
    /\ data # <<>> =>
         {decimated[k] : k \in 1..Len(decimated)} = {data[1], data[Len(data)]}

----------------------------------------------------------------------------
(* Claims about the binary search (SpecSearch) *)

Stamps == {sortedTimestamps[k] : k \in 1..Len(sortedTimestamps)}

\* The minimum distance a linear scan over the whole list finds.
LinearScanDistance == SetMin({Abs(t - mouseDate) : t \in Stamps})

\* C7: for a sorted non-empty list of distinct timestamps and any pointer time
\* the search selects a timestamp at the minimum distance a linear scan finds;
\* a pointer time equal to a timestamp selects it; the loop ends (it never
\* probes an index twice and always has a next step until it is done) and
\* the indices stay in bounds.
C7_SearchMatchesLinearScan ==
  /\ spc \in {"loop", "done"} =>
       /\ closestIndex \in 0..(Len(sortedTimestamps) - 1)
       /\ left >= 0
       /\ right <= Len(sortedTimestamps) - 1
       /\ \A a, b \in 1..Len(probes) : a # b => probes[a] # probes[b]
       /\ \A a \in 1..Len(probes) : probes[a] \in 0..(Len(sortedTimestamps) - 1)
  /\ spc \in {"move", "loop"} => ENABLED NextSearch
  /\ spc = "done" =>
       /\ selectedTimestamp \in Stamps
       /\ Abs(selectedTimestamp - mouseDate) = LinearScanDistance
       /\ mouseDate \in Stamps => selectedTimestamp = mouseDate

C7_Witness ==
  /\ spc = "done"
  /\ Len(sortedTimestamps) = MaxStamps
  /\ Len(probes) >= 3
  /\ closestIndex > 0
  /\ mouseDate \notin Stamps
  /\ Abs(selectedTimestamp - mouseDate) = LinearScanDistance

\* The pointer time is exactly halfway between the adjacent timestamps at
\* the (0-based) indices j and j+1.
Halfway(j) ==
  /\ j \in 0..(Len(sortedTimestamps) - 2)
  /\ At(sortedTimestamps, j) + At(sortedTimestamps, j + 1) = 2 * mouseDate

\* C8 as stated: a pointer time halfway between two adjacent timestamps
\* selects the one with the lower index, wherever the pair is in the list.
C8_TieSelectsLowerIndex ==
  spc = "done" =>
    \A j \in 0..(Len(sortedTimestamps) - 2) : Halfway(j) => closestIndex = j

\* Index 0 is the closest before the loop; then the probes in order.
Examined == <<0>> \o probes

FirstExamined(i) == SetMin({k \in 1..Len(Examined) : Examined[k] = i})

\* C8 amended: a pointer time halfway between two adjacent timestamps selects
\* whichever of the two the search examines first (index 0 being examined
\* before the loop); that one is always examined.
C8_TieSelectsFirstExamined ==
  spc = "done" =>
    \A j \in 0..(Len(sortedTimestamps) - 2) :
      Halfway(j) =>
        LET other == IF closestIndex = j THEN j + 1 ELSE j
        IN  /\ closestIndex \in {j, j + 1}
            /\ \E k \in 1..Len(Examined) : Examined[k] = closestIndex
            /\ (\E k \in 1..Len(Examined) : Examined[k] = other) =>
                 FirstExamined(closestIndex) < FirstExamined(other)

\* A tie that the later timestamp wins.
C8_Witness ==
  /\ spc = "done"
  /\ \E j \in 0..(Len(sortedTimestamps) - 2) : Halfway(j) /\ closestIndex = j + 1

----------------------------------------------------------------------------
(* Claims about the date range (Spec) *)

\* C9: after any sequence of data load, brush commits and reset clicks the
\* published date range has start < end, strictly, the initial range and the
\* reset range of a dataset whose parseable timestamps are all equal included.
C9_RangeStartBeforeEnd ==
  dateRange # Null => dateRange.start < dateRange.end

\* A brush end event from a user gesture whose selection inverts to a
\* start equal to its end.
ZeroWidthBrushEnd ==
  /\ brush # Null
  /\ \E selection \in Selections(brush) \ {Null} :
       /\ invert(brush, selection.x0) = invert(brush, selection.x1)
       /\ BrushEnd(TRUE, selection)

----------------------------------------------------------------------------
(* Claims about the brush events and the render effect (Spec) *)

\* A 'brush' event, or an 'end' event without sourceEvent or without selection.
QuietBrushEvent ==
  /\ brush # Null
  /\ \E sourceEvent \in BOOLEAN : \E selection \in Selections(brush) :
       \/ BrushMove(sourceEvent, selection)
       \/ /\ ~(sourceEvent /\ selection # Null)
          /\ BrushEnd(sourceEvent, selection)

\* An 'end' event with sourceEvent and selection, a reset click, a completed
\* data load.
RangeSetter ==
  \/ /\ brush # Null
     /\ \E selection \in Selections(brush) \ {Null} : BrushEnd(TRUE, selection)
  \/ ResetClick
  \/ \E series \in Datasets : FetchSucceeds(SeriesOf(series))

\* C11: 'brush' events, 'end' events without sourceEvent and 'end' events
\* without selection leave the date range, the visibility set and the data
\* unchanged; the date range changes only through an 'end' event with
\* sourceEvent and selection, a reset click or a completed data load.
C11_RangeChangesOnlyByCommit ==
  [][/\ QuietBrushEvent => UNCHANGED <<dateRange, visibleLines, sentimentData>>
     /\ dateRange' # dateRange => RangeSetter]_vars

\* An 'end' event that published nothing, received while the range is
\* narrower than the data.
C11_Witness ==
  /\ event = "end"
  /\ brush # Null
  /\ dateRange.end < brush.domain[2]

\* The step changed the data, the visibility set, the date range or the
\* chartWidth state.
InputChange ==
  \/ event' \in {"load", "commit", "reset", "toggle"}
  \/ event' = "timeout" /\ chartWidth' # chartWidth

DrawnWidthCurrent ==
  /\ brush # Null
  /\ brush.width = clientWidth - BrushMarginLeft - marginRight

\* C13: once the data is drawn, a resize of the window is eventually followed
\* by a render pass that uses the container's current width, in both variants.
C13_ResizeLeadsToPass ==
  (brush # Null) ~> DrawnWidthCurrent

\* C14: once the tooltip element exists, no later step removes it or creates
\* another one.
C14_TooltipReused ==
  [][tooltipRef => (tooltipRef' /\ ~tooltipCreated')]_vars

\* C15: after any number of render passes the chart container and the brush
\* container hold exactly one svg each, at most one tooltip, and exactly one
\* 'Reset Zoom' button.
C15_OnlyLatestPassInDom ==
  brush # Null =>
    /\ chartSvgs = 1
    /\ brushSvgs = 1
    /\ chartTooltips <= 1
    /\ resetButtons = 1

\* C16: after a load whose dataset is empty (no series, or no point with a
\* parseable timestamp) the chart shows the no-data placeholder.
C16_EmptyDatasetPlaceholder ==
  (fetchOutcome = "ok" /\ allDates(sentimentData) = {}) => drawn = "placeholder"

\* No visible series has a point inside the date range.
NoPointLeft ==
  \A k \in 1..Len(sentimentData) :
    visible(visibleLines, sentimentData[k].name) =>
      \A j \in 1..Len(sentimentData[k].values) :
        LET date == parseTime(sentimentData[k].values[j][1])
        IN  date = NoDate \/ date < dateRange.start \/ date > dateRange.end

C18_MissingShownNotAvailable ==
  event = "mousemove" =>
    \A k \in 1..Len(formattedData) :
      (\A j \in 1..Len(formattedData[k].values) :
         formattedData[k].values[j].date # selectedTimestamp)
        => tooltipContent[k] = "N/A"

\* C19: a failed fetch ends with the error set, loading false, nothing drawn
\* and the retry available, in both variants; loading is false after every
\* fetch outcome.
C19_FailedFetchErrorState ==
  /\ fetchOutcome = "failed" =>
       /\ error # Null
       /\ ~loading
       /\ drawn = "nothing"
       /\ brush = Null
       /\ ENABLED Retry
  /\ fetchOutcome \in {"ok", "failed"} => ~loading

\* C20: a render pass runs only with a non-empty series list and a date
\* range; before the load completes and after a failed load no pass has run
\* and nothing is drawn.
C20_NoPassWithoutDataAndRange ==
  /\ passes > 0 => (Len(sentimentData) > 0 /\ dateRange # Null)
  /\ brush # Null => (Len(sentimentData) > 0 /\ dateRange # Null)
  /\ (loading \/ fetchOutcome \in {"none", "failed"}) =>
       /\ passes = 0
       /\ brush = Null
       /\ drawn = "nothing"
       /\ chartSvgs = 0
       /\ brushSvgs = 0

\* A completed load of series without a parseable timestamp: data, no range,
\* the chart containers in the DOM, and no pass.
C20_Witness ==
  /\ fetchOutcome = "ok"
  /\ ChartMounted(loading, error)
  /\ Len(sentimentData) > 0
  /\ dateRange = Null
  /\ passes = 0
  /\ drawn = "nothing"

-----------------------------------------------------------------------------
(* Claims about the full extent (Spec) *)

\* The parseable timestamps of all loaded series.
LoadedDates == allDates(sentimentData)

\* C21: after a completed load with a parseable timestamp, and after every
\* reset click, the date range is [min, max] of all parseable timestamps of
\* all series, whatever the visibility set is.
C21_LoadAndResetPublishFullExtent ==
  ((event = "load" /\ LoadedDates # {}) \/ event = "reset") =>
    /\ dateRange # Null
    /\ dateRange.start \in LoadedDates
    /\ dateRange.end \in LoadedDates
    /\ \A d \in LoadedDates : dateRange.start <= d /\ d <= dateRange.end

\* A reset click with a series hidden and the extent spanning two instants.
C21_Witness ==
  /\ event = "reset"
  /\ \E name \in DOMAIN visibleLines : ~visibleLines[name]
  /\ dateRange.start < dateRange.end

-----------------------------------------------------------------------------
(* renderChart as a function of series, visibility, range and width
   (SpecRender): series long enough for the decimation step to cut them *)

\* The values of a series with n points at the instants 0..n-1, latest first,
\* the values alternating over 0..MaxValue.
LongValues(n) == [j \in 1..n |-> <<n - j, (n - j) % (MaxValue + 1)>>]

\* A short second series with a malformed timestamp.
ShortValues == <<<<2, 1>>, <<BadTimestamp, 1>>, <<0, 0>>>>

SeriesLens == {0, 1, MaxSeriesLen - 4, MaxSeriesLen - 2, MaxSeriesLen}

LongDatasets ==
  {<<LongValues(n)>> : n \in SeriesLens} \cup
  {<<LongValues(n), ShortValues>> : n \in SeriesLens}

\* The date ranges a brush commit can publish, start <= end.
RangeCuts == {0, 1, MaxSeriesLen - 3, MaxSeriesLen - 1}

RenderRanges == {r \in [end : RangeCuts, start : RangeCuts] : r.start <= r.end}

\* Container widths: not wider than the margins, one pixel wider, and wide
\* enough for floor(width / 3) to pass 100.
RenderWidths ==
  {BrushMarginLeft + marginRight + w :
     w \in {0, 1} \cup {3 * b + 1 : b \in (MaxBudget - 2)..MaxBudget}}

\* const width = chartRef.current.clientWidth - margin.left - margin.right
innerWidth(client) == client - BrushMarginLeft - marginRight

\* renderChart up to the placeholder test: formattedData ([] when the pass
\* returns at `width <= 0`).
passData(series, lines, range, client) ==
  IF innerWidth(client) > 0
    THEN formatData(series, lines, range, innerWidth(client))
    ELSE <<>>

passDrawn(formatted, client) ==
  IF innerWidth(client) <= 0 THEN "nothing"
  ELSE IF noData(formatted) THEN "placeholder"
  ELSE "lines"

passStamps(formatted, client) ==
  IF passDrawn(formatted, client) = "lines"
    THEN Ascending(stampsOf(formatted))
    ELSE <<>>

\* The state variables renderChart neither reads nor writes, left at rest.
RenderFrame ==
  /\ loading = FALSE
  /\ error = Null
  /\ fetching = FALSE
  /\ brush = Null
  /\ skipLoading = FALSE
  /\ chartWidth = 0
  /\ resizeListener = FALSE
  /\ resizeTimer = FALSE
  /\ fetchOutcome = "ok"
  /\ passes = 0
  /\ tooltipRef = FALSE
  /\ tooltipCreated = FALSE
  /\ chartSvgs = 0
  /\ chartTooltips = 0
  /\ brushSvgs = 0
  /\ resetButtons = 0
  /\ tooltipContent = <<>>
  /\ selectedTimestamp = NoTimestamp
  /\ mouseDate = 0
  /\ left = 0
  /\ right = 0
  /\ closestIndex = 0
  /\ probes = <<>>
  /\ spc = "idle"

\* The inputs of the first pass, before it runs.
InitRender ==
  /\ variant \in {"v1", "v2"}
  /\ \E series \in LongDatasets : sentimentData = SeriesOf(series)
  /\ visibleLines \in
       (IF variant = "v1"
          THEN {[name \in {sentimentData[k].name : k \in 1..Len(sentimentData)} |-> TRUE],
                [name \in {sentimentData[k].name : k \in 1..Len(sentimentData)} |->
                   name = "A"]}
          ELSE {<<>>})
  /\ dateRange \in RenderRanges
  /\ clientWidth \in RenderWidths
  /\ formattedData = <<>>
  /\ drawn = "nothing"
  /\ sortedTimestamps = <<>>
  /\ event = "mount"
  /\ RenderFrame
  /\ DecimateIdle
  /\ OtherIdle

\* The first pass.
RenderFirst ==
  /\ event = "mount"
  /\ formattedData' = passData(sentimentData, visibleLines, dateRange, clientWidth)
  /\ drawn' = passDrawn(formattedData', clientWidth)
  /\ sortedTimestamps' = passStamps(formattedData', clientWidth)
  /\ event' = "load"
  /\ UNCHANGED <<sentimentData, visibleLines, dateRange, clientWidth, loading, error,
                 fetching, brush, mountVars, chartWidth, resizeTimer, fetchOutcome>>
  /\ UNCHANGED <<passes, tooltipRef, tooltipCreated, chartSvgs, chartTooltips,
                 brushSvgs, resetButtons, tooltipContent, selectedTimestamp>>
  /\ UNCHANGED <<decimateVars, loopVars, otherVars>>

\* A pass after the date range changed (brush commit or reset).
RenderRange(range) ==
  /\ event # "mount"
  /\ range # dateRange
  /\ dateRange' = range
  /\ formattedData' = passData(sentimentData, visibleLines, range, clientWidth)
  /\ drawn' = passDrawn(formattedData', clientWidth)
  /\ sortedTimestamps' = passStamps(formattedData', clientWidth)
  /\ event' = "commit"
  /\ UNCHANGED <<sentimentData, visibleLines, clientWidth, loading, error, fetching,
                 brush, mountVars, chartWidth, resizeTimer, fetchOutcome>>
  /\ UNCHANGED <<passes, tooltipRef, tooltipCreated, chartSvgs, chartTooltips,
                 brushSvgs, resetButtons, tooltipContent, selectedTimestamp>>
  /\ UNCHANGED <<decimateVars, loopVars, otherVars>>

\* A pass after the container width changed.
RenderWidth(client) ==
  /\ event # "mount"
  /\ client # clientWidth
  /\ clientWidth' = client
  /\ formattedData' = passData(sentimentData, visibleLines, dateRange, client)
  /\ drawn' = passDrawn(formattedData', client)
  /\ sortedTimestamps' = passStamps(formattedData', client)
  /\ event' = "resize"
  /\ UNCHANGED <<sentimentData, visibleLines, dateRange, loading, error, fetching,
                 brush, mountVars, chartWidth, resizeTimer, fetchOutcome>>
  /\ UNCHANGED <<passes, tooltipRef, tooltipCreated, chartSvgs, chartTooltips,
                 brushSvgs, resetButtons, tooltipContent, selectedTimestamp>>
  /\ UNCHANGED <<decimateVars, loopVars, otherVars>>

NextRender ==
  \/ RenderFirst
  \/ \E range \in RenderRanges : RenderRange(range)
  \/ \E client \in RenderWidths : RenderWidth(client)

SpecRender == InitRender /\ [][NextRender]_vars

-----------------------------------------------------------------------------
(* Claims about the range filter, the point budget and the hover index
   (SpecRender) *)

\* The number of points of series A that pass the range filter.
FilteredA == Len(seriesPoints(sentimentData[1].values, dateRange))

\* Series A is drawn with fewer points than the filter left: the decimation
\* step cut it.
DecimatedA ==
  /\ Len(formattedData) > 0
  /\ formattedData[1].name = "A"
  /\ Len(formattedData[1].values) < FilteredA

\* C22: with the series, the visibility set and the width unchanged, a pass
\* for a date range contained in the range of the pass before draws, for
\* each series, at most as many points as that pass.
C22_NarrowerRangeFewerPoints ==
  [][(/\ event # "mount"
      /\ sentimentData' = sentimentData
      /\ visibleLines' = visibleLines
      /\ clientWidth' = clientWidth
      /\ dateRange'.start >= dateRange.start
      /\ dateRange'.end <= dateRange.end)
       => /\ Len(formattedData') = Len(formattedData)
          /\ \A k \in 1..Len(formattedData) :
               Len(formattedData'[k].values) <= Len(formattedData[k].values)]_vars

\* A pass for a range that starts after the first instant, with series A
\* cut by the decimation step.
C22_Witness ==
  /\ event = "commit"
  /\ dateRange.start = 1
  /\ dateRange.end = MaxSeriesLen - 1
  /\ DecimatedA

\* C23: with the series, the visibility set and the date range unchanged, a
\* pass at a container width not larger than that of the pass before has a
\* point budget not larger, and draws for each series at most as many points.
C23_SmallerWidthFewerPoints ==
  [][(/\ event # "mount"
      /\ sentimentData' = sentimentData
      /\ visibleLines' = visibleLines
      /\ dateRange' = dateRange
      /\ clientWidth' <= clientWidth)
       => /\ maxPointsPerLine(innerWidth(clientWidth'))
               <= maxPointsPerLine(innerWidth(clientWidth))
          /\ \A k \in 1..Len(formattedData') :
               Len(formattedData'[k].values) <= Len(formattedData[k].values)]_vars

\* A pass after a resize to a width whose budget is above 100 and below the
\* largest, with series A cut to the budget.
C23_Witness ==
  /\ event = "resize"
  /\ maxPointsPerLine(innerWidth(clientWidth)) = MaxBudget - 1
  /\ DecimatedA
  /\ Len(formattedData[1].values) = MaxBudget - 1

-----------------------------------------------------------------------------
(* Claims about the buckets of decimateData (SpecDecimate) *)

\* The indices the inner loop of bucket i visits.
bucket(i, length, maxPts) ==
  bucketStart(i, length, maxPts)..(bucketEnd(i, length, maxPts) - 1)

\* C24: when the input is longer than maxPoints >= 3, the buckets
\* i = 1..maxPoints-2 are non-empty, contiguous and pairwise disjoint, and
\* together they are exactly the interior indices 1..length-2.
C24_BucketsPartitionInterior ==
  (dpc = "done" /\ Len(data) > maxPoints /\ maxPoints >= 3) =>
    LET n == Len(data)
    IN  /\ \A i \in 1..(maxPoints - 2) : bucket(i, n, maxPoints) # {}
        /\ \A i \in 1..(maxPoints - 3) :
             bucketEnd(i, n, maxPoints) = bucketStart(i + 1, n, maxPoints)
        /\ \A i, j \in 1..(maxPoints - 2) :
             i # j => bucket(i, n, maxPoints) \cap bucket(j, n, maxPoints) = {}
        /\ UNION {bucket(i, n, maxPoints) : i \in 1..(maxPoints - 2)} = 1..(n - 2)

\* The timestamps of the points a pass drew.
DrawnDates ==
  UNION {{formattedData[k].values[j].date : j \in 1..Len(formattedData[k].values)} :
           k \in 1..Len(formattedData)}

\* Every drawn point is a point of a visible series of the data, inside the
\* date range.
DrawnFromData ==
  \A k \in 1..Len(formattedData) :
    \E s \in 1..Len(sentimentData) :
      /\ sentimentData[s].name = formattedData[k].name
      /\ visible(visibleLines, sentimentData[s].name)
      /\ \A j \in 1..Len(formattedData[k].values) :
           /\ formattedData[k].values[j].date >= dateRange.start
           /\ formattedData[k].values[j].date <= dateRange.end
           /\ \E r \in 1..Len(sentimentData[s].values) :
                /\ parseTime(sentimentData[s].values[r][1]) =
                     formattedData[k].values[j].date
                /\ sentimentData[s].values[r][2] = formattedData[k].values[j].value

\* C25: in a pass that draws data, sortedTimestamps increases strictly and
\* holds exactly the timestamps of the drawn points, which are points of
\* visible series inside the date range; every timestamp maps to a series, and
\* the value kept for (timestamp, series) is that of a drawn point of the
\* series at the timestamp.
C25_HoverIndexMatchesDrawnPoints ==
  drawn = "lines" =>
    LET index == dateValues(formattedData)
    IN  /\ \A i \in 1..(Len(sortedTimestamps) - 1) :
             sortedTimestamps[i] < sortedTimestamps[i + 1]
        /\ {sortedTimestamps[i] : i \in 1..Len(sortedTimestamps)} = DrawnDates
        /\ DOMAIN index = DrawnDates
        /\ DrawnFromData
        /\ \A timestamp \in DOMAIN index :
             /\ DOMAIN index[timestamp] # {}
             /\ \A name \in DOMAIN index[timestamp] :
                  \E k \in 1..Len(formattedData) :
                    /\ formattedData[k].name = name
                    /\ \E j \in 1..Len(formattedData[k].values) :
                         /\ formattedData[k].values[j].date = timestamp
                         /\ formattedData[k].values[j].value = index[timestamp][name]

\* Two series drawn, the first cut by the decimation step, so that the index
\* holds fewer timestamps than the range filter let through.
C25_Witness ==
  /\ drawn = "lines"
  /\ Len(formattedData) = 2
  /\ DecimatedA
  /\ Len(sortedTimestamps) < FilteredA

-----------------------------------------------------------------------------
(* The mousemove throttle of a render pass (SpecThrottle) *)

\* const throttleDelay = 30
ThrottleDelay == 30

\* Date.now() when a pass runs: milliseconds since 1970, never below
\* throttleDelay; the least such value.
PassTime == ThrottleDelay

\* Mutant: the throttle lets an event through one ms early.
throttled_early(now, last) == now - last < ThrottleDelay - 1

\* if (now - lastMove < throttleDelay) return
throttled(now, last) == now - last < ThrottleDelay

\* The points a pass drew for the hover handlers: one series, two instants.
HoverPoints == <<[date |-> 0, value |-> 0], [date |-> 1, value |-> 1]>>

\* The state a mousemove handler neither reads nor writes, and what the pass
\* that installed it left.
hoverFrame == <<sentimentData, visibleLines, dateRange, loading, error, fetching,
                clientWidth, brush, mountVars, chartWidth, resizeTimer, fetchOutcome,
                passes, tooltipRef, tooltipCreated, chartSvgs, chartTooltips,
                brushSvgs, resetButtons, drawn, formattedData, sortedTimestamps>>

\* A pass has just drawn lines; its handler has `lastMove = 0`.
InitThrottle ==
  /\ clock = PassTime
  /\ lastMove = 0
  /\ moves = {}
  /\ variant \in {"v1", "v2"}
  /\ sentimentData = <<[values |-> <<<<1, 1>>, <<0, 0>>>>, name |-> "A"]>>
  /\ visibleLines = (IF variant = "v1" THEN [name \in {"A"} |-> TRUE] ELSE <<>>)
  /\ dateRange = [end |-> 1, start |-> 0]
  /\ clientWidth = BrushMarginLeft + marginRight + MaxWidth
  /\ formattedData = <<[values |-> HoverPoints, name |-> "A"]>>
  /\ drawn = "lines"
  /\ sortedTimestamps = <<0, 1>>
  /\ event = "load"
  /\ loading = FALSE
  /\ error = Null
  /\ fetching = FALSE
  /\ brush = Null
  /\ skipLoading = FALSE
  /\ chartWidth = 0
  /\ resizeListener = FALSE
  /\ resizeTimer = FALSE
  /\ fetchOutcome = "ok"
  /\ passes = 1
  /\ tooltipRef = TRUE
  /\ tooltipCreated = TRUE
  /\ chartSvgs = 1
  /\ chartTooltips = 1
  /\ brushSvgs = 0
  /\ resetButtons = 0
  /\ tooltipContent = <<>>
  /\ selectedTimestamp = NoTimestamp
  /\ mouseDate = 0
  /\ left = 0
  /\ right = 0
  /\ closestIndex = 0
  /\ probes = <<>>
  /\ spc = "idle"
  /\ DecimateIdle
  /\ DebounceIdle
  /\ StoreIdle
  /\ LoaderIdle

\* A millisecond passes.
Tick ==
  /\ clock < PassTime + MaxElapsed
  /\ clock' = clock + 1
  /\ UNCHANGED <<throttleVars, debounceVars, storeVars, homeVars, loaderVars>>
  /\ UNCHANGED <<decimateVars, searchVars, chartVars>>

\* The mousemove handler, whole: the throttle, the search and the tooltip.
ThrottledMouseMove(pointer) ==
  /\ drawn = "lines"
  /\ IF throttled(clock, lastMove)
       THEN /\ event' = "throttled"
            /\ UNCHANGED <<lastMove, moves, selectedTimestamp, tooltipContent>>
       ELSE /\ event' = "mousemove"
            /\ lastMove' = clock
            /\ moves' = moves \cup {clock}
            /\ selectedTimestamp' =
                 At(sortedTimestamps,
                    searchLoop(sortedTimestamps, pointer, 0,
                               Len(sortedTimestamps) - 1, 0))
            /\ tooltipContent' =
                 [k \in 1..Len(formattedData) |->
                    tooltipText(formattedData[k].values, selectedTimestamp')]
  /\ UNCHANGED <<clock, debounceVars, storeVars, homeVars, loaderVars>>
  /\ UNCHANGED <<hoverFrame, decimateVars, loopVars>>

\* A new render pass: renderChart runs again and its handler starts with
\* `lastMove = 0`.
ThrottlePass ==
  /\ event # "pass"
  /\ lastMove' = 0
  /\ moves' = {}
  /\ selectedTimestamp' = NoTimestamp
  /\ tooltipContent' = <<>>
  /\ event' = "pass"
  /\ UNCHANGED <<clock, debounceVars, storeVars, homeVars, loaderVars>>
  /\ UNCHANGED <<hoverFrame, decimateVars, loopVars>>

NextThrottle ==
  \/ Tick
  \/ \E pointer \in 0..1 : ThrottledMouseMove(pointer)
  \/ ThrottlePass

SpecThrottle == InitThrottle /\ [][NextThrottle]_vars

\* A step of the mousemove handler.
MoveStep == clock' = clock /\ event' \in {"mousemove", "throttled"}

\* C26: within a render pass, the mousemove events that update crosshair and
\* tooltip are at least 30 ms apart; one that arrives less than 30 ms after
\* the last processed one changes nothing; the first one after a pass is
\* processed.
C26_MouseMoveThrottled ==
  [][MoveStep =>
       /\ moves = {} => (event' = "mousemove" /\ moves' = {clock})
       /\ (moves # {} /\ clock - SetMax(moves) < 30) =>
            /\ event' = "throttled"
            /\ UNCHANGED <<lastMove, moves, selectedTimestamp, tooltipContent,
                           hoverFrame>>
       /\ event' = "mousemove" =>
            /\ \A t \in moves : clock - t >= 30
            /\ moves' = moves \cup {clock}]_vars

\* Three events processed in one pass, the last two exactly 30 ms apart, and
\* a later event held back.
C26_Witness ==
  /\ event = "throttled"
  /\ Cardinality(moves) = 3
  /\ \E t \in moves : t + 30 \in moves

-----------------------------------------------------------------------------
(* debounce and the resize handler (SpecDebounce) *)

\* Bounds of the debounced calls: the delays, the instants and the number of
\* calls of one run.
MaxWait == 2
MaxClock == 6
MaxCalls == 3

\* A call of the debounced function is <<at, args>>; a pending timer is
\* <<id, due, args>>, its callback being `() => func(...args)`; a run of func
\* is <<id, at, args, ref>> with ref what chartRef.current was (TRUE: the
\* container, FALSE: null).  setTimeout returns the ids 1, 2, ...

\* Mutant: clearTimeout that cancels nothing.
clearTimeout_noop(pending, id) == pending

\* clearTimeout(timeout): the timer of that id, if still pending, is dropped.
clearTimeout(pending, id) == {t \in pending : t[1] # id}

\* handleResize's body: `if (chartRef.current)
\* setChartWidth(chartRef.current.clientWidth)`; the new chartWidth.
handleResize(ref, client, width) == IF ref THEN client ELSE width

\* The wrapper that debounce returns, called at `now` with args:
\* `if (timeout) clearTimeout(timeout); timeout = setTimeout(..., wait)`.
debounced(pending, id, now, args, delay) ==
  (IF timeout # 0 THEN clearTimeout(pending, timeout) ELSE pending)
    \cup {<<id, now + delay, args>>}

\* SentimentChartV2 mounted with skipLoading: the container is in the DOM of the
\* first render, so the resize effect has read its width and added the
\* listener `debounce(..., wait)`; no call yet.
InitDebounce ==
  /\ clock = 0
  /\ wait \in 1..MaxWait
  /\ timeout = 0
  /\ timers = {}
  /\ calls = <<>>
  /\ funcRuns = <<>>
  /\ unmounted = FALSE
  /\ variant = "v2"
  /\ skipLoading = TRUE
  /\ sentimentData = <<>>
  /\ visibleLines = <<>>
  /\ dateRange = Null
  /\ loading = TRUE
  /\ error = Null
  /\ fetching = TRUE
  /\ clientWidth \in ClientWidths
  /\ brush = Null
  /\ event = "mount"
  /\ resizeListener = TRUE
  /\ chartWidth = clientWidth
  /\ resizeTimer = FALSE
  /\ fetchOutcome = "none"
  /\ passes = 0
  /\ tooltipRef = FALSE
  /\ tooltipCreated = FALSE
  /\ chartSvgs = 0
  /\ chartTooltips = 0
  /\ brushSvgs = 0
  /\ resetButtons = 0
  /\ drawn = "nothing"
  /\ formattedData = <<>>
  /\ tooltipContent = <<>>
  /\ sortedTimestamps = <<>>
  /\ mouseDate = 0
  /\ left = 0
  /\ right = 0
  /\ closestIndex = 0
  /\ probes = <<>>
  /\ selectedTimestamp = NoTimestamp
  /\ spc = "idle"
  /\ DecimateIdle
  /\ ThrottleIdle
  /\ StoreIdle
  /\ LoaderIdle

\* What the debounced handler and its timers leave alone.
resizeFrame == <<sentimentData, visibleLines, dateRange, loading, error, fetching,
                 brush, variant, skipLoading, resizeTimer, fetchOutcome, domVars,
                 searchVars, decimateVars, throttleVars, storeVars, homeVars,
                 loaderVars, wait>>

\* A millisecond passes; a timer that is due fires before the next one does.
Elapse ==
  /\ clock < MaxClock
  /\ \A t \in timers : t[2] > clock
  /\ clock' = clock + 1
  /\ event' = "tick"
  /\ UNCHANGED <<timeout, timers, calls, funcRuns, unmounted, clientWidth,
                 chartWidth, resizeListener, resizeFrame>>

\* A resize event reaches the listener; the event is told apart by the width
\* the container has taken.
ResizeCall(width) ==
  /\ resizeListener
  /\ Len(calls) < MaxCalls
  /\ clientWidth' = width
  /\ LET id == Len(calls) + 1
     IN  /\ timers' = debounced(timers, id, clock, width, wait)
         /\ timeout' = id
  /\ calls' = Append(calls, <<clock, width>>)
  /\ event' = "resize"
  /\ UNCHANGED <<clock, funcRuns, unmounted, chartWidth, resizeListener,
                 resizeFrame>>

\* A pending timer whose delay has passed runs its callback.
TimerFires ==
  /\ \E t \in timers :
       /\ t[2] <= clock
       /\ timers' = timers \ {t}
       /\ funcRuns' = Append(funcRuns, <<t[1], clock, t[3], ~unmounted>>)
  /\ chartWidth' = handleResize(~unmounted, clientWidth, chartWidth)
  /\ event' = "timeout"
  /\ UNCHANGED <<clock, timeout, calls, unmounted, clientWidth, resizeListener,
                 resizeFrame>>

\* The component unmounts: the effect's cleanup removes the listener and
\* leaves the timer; chartRef.current becomes null.
UnmountChart ==
  /\ ~unmounted
  /\ unmounted' = TRUE
  /\ resizeListener' = FALSE
  /\ event' = "unmount"
  /\ UNCHANGED <<clock, timeout, timers, calls, funcRuns, clientWidth,
                 chartWidth, resizeFrame>>

NextDebounce ==
  \/ Elapse
  \/ \E width \in ClientWidths : ResizeCall(width)
  \/ TimerFires
  \/ UnmountChart

SpecDebounce == InitDebounce /\ [][NextDebounce]_vars

-----------------------------------------------------------------------------
(* Claims about debounce (SpecDebounce) *)

\* The runs of func that the timer of call c made.
runsOf(c) == {r \in 1..Len(funcRuns) : funcRuns[r][1] = c}

\* Call c is followed by another one less than `wait` later.
followedInBurst(c) == c < Len(calls) /\ calls[c + 1][1] - calls[c][1] < wait

\* Call c ends a burst whose delay is over: no call came up to `wait` later.
burstOver(c) ==
  /\ clock > calls[c][1] + wait
  /\ c < Len(calls) => calls[c + 1][1] - calls[c][1] > wait

DebounceRuns ==
  /\ Cardinality(timers) <= 1
  /\ \A r \in 1..Len(funcRuns) : funcRuns[r][1] \in 1..Len(calls)
  /\ \A c \in 1..Len(calls) :
       /\ Cardinality(runsOf(c)) <= 1
       /\ \A r \in runsOf(c) : /\ funcRuns[r][2] = calls[c][1] + wait
                               /\ funcRuns[r][3] = calls[c][2]
       /\ followedInBurst(c) => runsOf(c) = {}
       /\ burstOver(c) => Cardinality(runsOf(c)) = 1

\* C27: a burst of calls, each less than `wait` after the one before, runs the
\* wrapped function exactly once, `wait` after the last call and with its
\* arguments; at most one timer is pending; a resize timer that fires after
\* the unmount updates no state.
C27_DebounceRunsOnceAfterBurst ==
  /\ []DebounceRuns
  /\ [][event' = "timeout" =>
          /\ unmounted => UNCHANGED <<chartWidth, clientWidth, resizeFrame>>
          /\ ~unmounted => chartWidth' = clientWidth]_vars

\* A burst of three calls at three instants ran func once, after the unmount.
C27_Witness ==
  /\ Len(calls) = MaxCalls
  /\ \A c \in 1..(Len(calls) - 1) : followedInBurst(c) /\ calls[c + 1][1] > calls[c][1]
  /\ Len(funcRuns) = 1
  /\ funcRuns[1][1] = MaxCalls
  /\ funcRuns[1][4] = FALSE

-----------------------------------------------------------------------------
(* The data store (SpecStore) *)

\* The data strings a file can hold: an empty file, and one with text.
DataStrings == {"", "x"}

\* isDataAvailable: `!!localStorage.getItem(dataType)`; null and the empty
\* string are falsy.
isDataAvailable(storage, dataType) ==
  storage[dataType] # NoItem /\ storage[dataType][1] # ""

\* hasData of the store.
hasData(storage, dataType) == isDataAvailable(storage, dataType)

\* localStorage after saveData's four setItem calls.
savedItems(storage, dataType, text) ==
  [k \in ItemKeys |->
     IF k = dataType THEN <<text>>
     ELSE IF k \in {dataType \o suffix : suffix \in MetaSuffixes} THEN <<"meta">>
     ELSE storage[k]]

\* The store is created in a browser whose localStorage holds what earlier
\* sessions left under the data keys.
InitStore ==
  /\ \E held \in [STORAGE_KEYS -> {NoItem} \cup {<<text>> : text \in DataStrings}] :
       localStorage = [k \in ItemKeys |-> IF k \in STORAGE_KEYS THEN held[k] ELSE NoItem]
  /\ dataStatus = [k \in STORAGE_KEYS |-> FALSE]
  /\ HomeIdle
  /\ ChartIdle
  /\ DecimateIdle
  /\ SearchIdle
  /\ TimerIdle
  /\ LoaderIdle

\* saveData(dataType, data, fileName, fileType).
SaveData(dataType, text) ==
  /\ localStorage' = savedItems(localStorage, dataType, text)
  /\ dataStatus' = [dataStatus EXCEPT ![dataType] = TRUE]
  /\ event' = "saveData"
  /\ UNCHANGED <<decimateVars, searchVars, chartState, timerVars, homeVars, loaderVars>>

\* clearAllData().
ClearAllData ==
  /\ localStorage' = [k \in ItemKeys |-> NoItem]
  /\ dataStatus' = [k \in STORAGE_KEYS |-> FALSE]
  /\ event' = "clearAllData"
  /\ UNCHANGED <<decimateVars, searchVars, chartState, timerVars, homeVars, loaderVars>>

\* checkDataStatus().
CheckDataStatus ==
  /\ dataStatus' = [k \in STORAGE_KEYS |-> isDataAvailable(localStorage, k)]
  /\ event' = "checkDataStatus"
  /\ UNCHANGED <<localStorage, decimateVars, searchVars, chartState, timerVars,
                 homeVars, loaderVars>>

NextStore ==
  \/ \E dataType \in STORAGE_KEYS, text \in DataStrings : SaveData(dataType, text)
  \/ ClearAllData
  \/ CheckDataStatus

SpecStore == InitStore /\ [][NextStore]_vars

-----------------------------------------------------------------------------
(* Claims about the data store (SpecStore) *)

\* C28: after any sequence of saveData, clearAllData and checkDataStatus
\* calls, dataStatus[k] is true exactly when hasData(k) is, for every storage
\* key; so hasData(k) is true right after saveData(k, data), whatever the data
\* string.
C28_StatusMatchesHasData ==
  event \in {"saveData", "clearAllData", "checkDataStatus"} =>
    \A k \in STORAGE_KEYS : dataStatus[k] = hasData(localStorage, k)

-----------------------------------------------------------------------------
(* useDataLoader and DemoDashboard (SpecLoader) *)

\* The five sample files, in the order of the fetches.
JsonFiles == {"wordcloud", "sentiment", "document_summary"}

CsvFiles == {"email_distribution", "date_distribution"}

SampleFiles == JsonFiles \cup CsvFiles

\* What the server holds for a file: "rejected", the fetch fails; "notOk", a
\* response with an error status; "unreadable", reading the body fails;
\* "malformed", a body that is not JSON, or a line of the date CSV without a
\* comma; "badRow", a CSV line whose number does not parse (any line of the
\* email CSV that is not a number); "valid".
Outcomes(file) ==
  {"rejected", "notOk", "unreadable", "valid"}
    \cup (IF file \in CsvFiles THEN {"badRow"} ELSE {})
    \cup (IF file = "email_distribution" THEN {} ELSE {"malformed"})

\* `string | null` and `VizHubData | null`: <<>> stands for null, <<v>> for v.
NoError == <<>>

NoData == <<>>

\* Mutant: the status check passes unless every response failed.
someNotOk_every(files) == \A f \in SampleFiles : files[f] = "notOk"

\* `responses.some(response => !response.ok)`.
someNotOk(files) == \E f \in SampleFiles : files[f] = "notOk"

\* response.json() rejects: the body cannot be read or is not JSON (an error
\* page is not).
jsonFails(outcome) == outcome \in {"unreadable", "malformed", "notOk"}

\* The rows a CSV body gives after `.slice(1)`, `.map` and `.filter`: the line
\* of a valid file, none when its number is NaN; an error page has no row.
csvRows(outcome) == IF outcome = "valid" THEN <<"row">> ELSE <<>>

\* The date CSV's map throws on a line without comma: `count` is undefined
\* and `count.trim()` a TypeError.  parseInt of the email CSV never throws.
csvThrows(file, outcome) ==
  file = "date_distribution" /\ outcome \in {"malformed", "notOk"}

\* completeData.
completeData(files) ==
  [f \in SampleFiles |-> IF f \in CsvFiles THEN csvRows(files[f]) ELSE <<"json">>]

\* The state set in the catch block.
failed(message) == [data |-> NoData, error |-> <<message>>, isLoading |-> FALSE]

\* The state set at the end of the try block.
loaded(files) == [data |-> <<completeData(files)>>, error |-> NoError, isLoading |-> FALSE]

\* DemoDashboard's branches.
view(state) ==
  IF state.isLoading THEN "spinner"
  ELSE IF state.error # NoError /\ state.error[1] # "" THEN "error"
  ELSE IF state.data # NoData THEN "dashboard"
  ELSE "header"

\* The hook as useState leaves it, its effect not yet run; the server's files
\* are any.
InitLoader ==
  /\ loaderState = [data |-> NoData, error |-> NoError, isLoading |-> TRUE]
  /\ \E files \in [SampleFiles -> {"rejected", "notOk", "unreadable", "malformed",
                                   "badRow", "valid"}] :
       /\ \A f \in SampleFiles : files[f] \in Outcomes(f)
       /\ responses = files
  /\ lpc = "effect"
  /\ ChartIdle
  /\ DecimateIdle
  /\ SearchIdle
  /\ TimerIdle
  /\ StoreIdle

\* What useDataLoader leaves alone.
loaderFrame == <<responses, decimateVars, searchVars, chartVars, timerVars,
                 storeVars, homeVars>>

\* loadData up to the first await: the updater keeps data and sets isLoading
\* and error; the five fetches start.
LoadStart ==
  /\ lpc = "effect"
  /\ loaderState' = [data |-> loaderState.data, error |-> NoError, isLoading |-> TRUE]
  /\ lpc' = "fetching"
  /\ UNCHANGED loaderFrame

\* Promise.all of the fetches settles, then the status check.
FetchesSettle ==
  /\ lpc = "fetching"
  /\ IF \E f \in SampleFiles : responses[f] = "rejected"
       THEN /\ loaderState' = failed("Failed to fetch")
            /\ lpc' = "done"
       ELSE IF someNotOk(responses)
         THEN /\ loaderState' = failed("Failed to load data files")
              /\ lpc' = "done"
         ELSE /\ lpc' = "json"
              /\ UNCHANGED loaderState
  /\ UNCHANGED loaderFrame

\* Promise.all of the three response.json() settles.
JsonParsed ==
  /\ lpc = "json"
  /\ IF \E f \in JsonFiles : jsonFails(responses[f])
       THEN /\ loaderState' = failed("Unexpected token")
            /\ lpc' = "done"
       ELSE /\ lpc' = "csv"
            /\ UNCHANGED loaderState
  /\ UNCHANGED loaderFrame

\* Promise.all of the two response.text() settles, then both CSV parses and
\* the final setState.
CsvParsed ==
  /\ lpc = "csv"
  /\ loaderState' =
       IF \E f \in CsvFiles : responses[f] = "unreadable"
         THEN failed("Failed to fetch")
       ELSE IF \E f \in CsvFiles : csvThrows(f, responses[f])
         THEN failed("Cannot read properties of undefined")
       ELSE loaded(responses)
  /\ lpc' = "done"
  /\ UNCHANGED loaderFrame

NextLoader ==
  \/ LoadStart
  \/ FetchesSettle
  \/ JsonParsed
  \/ CsvParsed

SpecLoader == InitLoader /\ [][NextLoader]_vars

-----------------------------------------------------------------------------
(* Claims about useDataLoader (SpecLoader) *)

\* Every file was fetched with an ok status, read, and in its format.
allLoaded(files) == \A f \in SampleFiles : files[f] \in {"valid", "badRow"}

\* C29: useDataLoader starts with no data, loading and no error; once the
\* load has finished it has data, no error and is not loading if all five
\* files were fetched and parsed, and no data, an error and is not loading if
\* any fetch or parse failed; data and error are never both set, and data is
\* only ever the complete dataset.
C29_LoaderEndsLoadedOrFailed ==
  /\ lpc # "done" =>
       loaderState = [data |-> NoData, error |-> NoError, isLoading |-> TRUE]
  /\ lpc = "done" =>
       /\ ~loaderState.isLoading
       /\ allLoaded(responses) =>
            loaderState.data # NoData /\ loaderState.error = NoError
       /\ ~allLoaded(responses) =>
            loaderState.data = NoData /\ loaderState.error # NoError
  /\ ~(loaderState.data # NoData /\ loaderState.error # NoError)
  /\ loaderState.data # NoData =>
       /\ allLoaded(responses)
       /\ DOMAIN loaderState.data[1] = SampleFiles
  /\ view(loaderState) = "dashboard" <=> loaderState.data # NoData

\* A finished load that exposes the dataset, the email CSV having held a line
\* that is no number.
C29_Witness ==
  /\ lpc = "done"
  /\ loaderState.data # NoData
  /\ responses["email_distribution"] = "badRow"

-----------------------------------------------------------------------------
(* The home page and the storage events of other tabs (SpecHome) *)

\* The storage events that can wait for the page's listener.
MaxPending == 2

\* checkData's test: `Object.values(STORAGE_KEYS).some(key =>
\* localStorage.getItem(key) !== null)`.
dataExists(storage) == \E key \in STORAGE_KEYS : storage[key] # NoItem

\* dataStatus after checkData: checkDataStatus() if some data exists, and
\* otherwise left as it is.
checkedStatus(storage, status) ==
  IF dataExists(storage)
    THEN [k \in STORAGE_KEYS |-> isDataAvailable(storage, k)]
    ELSE status

\* Home's JSX for the sentiment chart.
sentimentShown(status) == status["sentimentData"]

\* Home has rendered its loading state and its effect has not run yet; the
\* store is new, and localStorage holds what earlier sessions left.
InitHome ==
  /\ \E held \in [STORAGE_KEYS -> {NoItem} \cup {<<text>> : text \in DataStrings}] :
       localStorage = [k \in ItemKeys |-> IF k \in STORAGE_KEYS THEN held[k] ELSE NoItem]
  /\ dataStatus = [k \in STORAGE_KEYS |-> FALSE]
  /\ HomeIdle
  /\ ChartIdle
  /\ DecimateIdle
  /\ SearchIdle
  /\ TimerIdle
  /\ LoaderIdle

\* What the home page leaves alone.
homeFrame == <<decimateVars, searchVars, chartState, timerVars, loaderVars>>

\* The effect runs at mount: checkData(), then the listener is added.
MountCheck ==
  /\ event = "none"
  /\ dataStatus' = checkedStatus(localStorage, dataStatus)
  /\ showUploadModal' = (showUploadModal \/ ~dataExists(localStorage))
  /\ homeLoading' = FALSE
  /\ event' = "mount"
  /\ UNCHANGED <<localStorage, storageEvents, homeFrame>>

\* Another tab of the site saves a file with its store's saveData; this tab
\* is sent storage events.
OtherTabSaves(dataType, text) ==
  /\ event # "none"
  /\ storageEvents < MaxPending
  /\ localStorage' = savedItems(localStorage, dataType, text)
  /\ storageEvents' = storageEvents + 1
  /\ event' = "otherTabSaves"
  /\ UNCHANGED <<dataStatus, showUploadModal, homeLoading, homeFrame>>

\* Another tab clears the data with its store's clearAllData.
OtherTabClears ==
  /\ event # "none"
  /\ storageEvents < MaxPending
  /\ dataExists(localStorage)
  /\ localStorage' = [k \in ItemKeys |-> NoItem]
  /\ storageEvents' = storageEvents + 1
  /\ event' = "otherTabClears"
  /\ UNCHANGED <<dataStatus, showUploadModal, homeLoading, homeFrame>>

\* The listener of 'storage' runs checkData for a waiting event.
StorageEvent ==
  /\ storageEvents > 0
  /\ storageEvents' = storageEvents - 1
  /\ dataStatus' = checkedStatus(localStorage, dataStatus)
  /\ showUploadModal' = (showUploadModal \/ ~dataExists(localStorage))
  /\ homeLoading' = FALSE
  /\ event' = "storage"
  /\ UNCHANGED <<localStorage, homeFrame>>

\* The user closes the upload modal.
CloseModal ==
  /\ showUploadModal
  /\ showUploadModal' = FALSE
  /\ event' = "closeModal"
  /\ UNCHANGED <<localStorage, dataStatus, homeLoading, storageEvents, homeFrame>>

NextHome ==
  \/ MountCheck
  \/ \E dataType \in STORAGE_KEYS, text \in DataStrings : OtherTabSaves(dataType, text)
  \/ OtherTabClears
  \/ StorageEvent
  \/ CloseModal

SpecHome == InitHome /\ [][NextHome]_vars

-----------------------------------------------------------------------------
(* Claims about the home page (SpecHome) *)

\* C30: after the mount check and after every storage event, dataStatus[k] is
\* whether localStorage holds key k, for every storage key; so once another
\* tab has removed all data, no visualization is shown for a key that is gone.
C30_StatusFollowsStorage ==
  event \in {"mount", "storage"} =>
    /\ \A k \in STORAGE_KEYS : dataStatus[k] = (localStorage[k] # NoItem)
    /\ sentimentShown(dataStatus) => localStorage["sentimentData"] # NoItem

====
